---- MODULE Spec2Model ----
(***************************************************************************)
(* Model of photo_details.py: process_files enumerates the files of a      *)
(* directory tree, submits one process_file task per file to a             *)
(* ThreadPoolExecutor(max_workers=2) and waits for all of them.            *)
(* process_file classifies the file by extension, reads its date, hashes   *)
(* images, consults and updates the shared dict image_hashes and copies    *)
(* the file under a computed name.                                         *)
(*                                                                         *)
(* The two pool threads share image_hashes and the destination directory   *)
(* without any lock, so every read and every write of the dict (and of an  *)
(* entry dict stored in it) is a step of its own and the steps of the two  *)
(* threads interleave freely.                                              *)
(***************************************************************************)
EXTENDS Integers, Sequences, FiniteSets, TLC

\* ------------------------------------------------------------------ bounds
\* Largest number of files the walk finds.
MaxFiles == 3

\* ------------------------------------------------------- program constants
max_workers == 2

image_extensions == <<".jpg", ".jpeg", ".png", ".gif", ".bmp", ".tiff">>
video_extensions == <<".mp4", ".avi", ".mov", ".mkv">>

\* Python's `x in t` for a tuple t.
In(x, t) == \E k \in 1..Len(t) : t[k] = x

images_output_dir == "out/images"
videos_output_dir == "out/videos"

\* os.path.join(a, b)
join(a, b) == a \o "/" \o b

\* ----------------------------------------------------------------- inputs
\* Lower-cased extensions of the files the walk can find.
Exts == {".jpg", ".mp4", ".txt"}

\* Values str(imagehash.average_hash(img)) can take.
Hashes == {"ffff0000ffff0000", "00ff00ff00ff00ff"}

\* A date string 'Y:m:d H:M:S' is held as the tuple of its six numbers; the
\* string 'Unknown' is the empty tuple.
Unknown == <<>>

\* Values of the EXIF field DateTimeOriginal: a proper date, and the
\* all-zero date cameras write when their clock is not set.
ExifDates == {<<2023, 5, 1, 10, 0, 0>>, <<0, 0, 0, 0, 0, 0>>}

\* Values of a container's creation_time when it is a datetime.
CreationTimes == {<<2023, 5, 1, 10, 0, 0>>}

\* ------------------------------------------------------------ date strings
IsLeap(y) == (y % 4 = 0 /\ y % 100 # 0) \/ y % 400 = 0

DaysIn(y, m) ==
    IF m = 2 THEN (IF IsLeap(y) THEN 29 ELSE 28)
    ELSE IF m \in {4, 6, 9, 11} THEN 30 ELSE 31

\* datetime.strptime(s, '%Y:%m:%d %H:%M:%S') returns a datetime exactly when
\* the fields are in range; otherwise it raises ValueError.
strptime_ok(s) ==
    /\ Len(s) = 6
    /\ s[1] \in 1..9999
    /\ s[2] \in 1..12
    /\ s[3] \in 1..DaysIn(s[1], s[2])
    /\ s[4] \in 0..23
    /\ s[5] \in 0..59
    /\ s[6] \in 0..61

Pad2(n) == IF n < 10 THEN "0" \o ToString(n) ELSE ToString(n)

Pad4(n) ==
    IF n < 10 THEN "000" \o ToString(n)
    ELSE IF n < 100 THEN "00" \o ToString(n)
    ELSE IF n < 1000 THEN "0" \o ToString(n) ELSE ToString(n)

\* datetime.strftime('%Y-%m-%d'): the time of day is dropped.
strftime(s) == Pad4(s[1]) \o "-" \o Pad2(s[2]) \o "-" \o Pad2(s[3])

\* Lines 52-55 and 72-75: raises when date_taken is neither 'Unknown' nor a
\* parsable date.
format_raises(d) == d # Unknown /\ ~strptime_ok(d)

date_taken_formatted(d) == IF d # Unknown THEN strftime(d) ELSE "unknown"

\* datetime.strftime('%Y:%m:%d %H:%M:%S') of get_video_metadata: a datetime
\* prints as a string strptime reads back.
get_video_metadata == {Unknown} \cup CreationTimes

\* get_image_metadata: the EXIF field as it is, or 'Unknown' when there is
\* no EXIF data, no such field, or the file cannot be read.
get_image_metadata == {Unknown} \cup ExifDates

\* --------------------------------------------------------------- filenames
\* duplicate_file_name as it would be if the ordinal were left out of the
\* name.
duplicate_file_name_NoOrdinal(d, h, n, ext) ==
    date_taken_formatted(d) \o "-" \o h \o "_duplicate" \o ext

\* Line 57.
duplicate_file_name(d, h, n, ext) ==
    date_taken_formatted(d) \o "-" \o h \o "_duplicate_" \o ToString(n) \o ext

\* Line 78.
image_file_name(d, h, ext) == date_taken_formatted(d) \o "-" \o h \o ext

\* Line 80.
video_file_name(d, id, ext) == date_taken_formatted(d) \o "-" \o id \o ext

\* str(uuid.uuid4()): a fresh identifier on every call; process_file makes
\* one call per item, so the call for item i yields the i-th identifier.
uuid4(i) == "uuid" \o ToString(i)

VARIABLES
    main,             \* position of process_files
    file_paths,       \* list of (file_path, ext); the path is the index
    submitted,        \* number of futures created by executor.submit
    image_hashes,     \* the dict: img_hash -> reference to an entry dict
    entry,            \* the entry dicts, by the item that created them
    dest,             \* files of the output directory
    pc,               \* position of process_file for each item
    date_taken,       \* locals of process_file, per item
    img_hash,
    duplicate_count,
    ref,              \* entry dict loaded by the running statement
    tmp,              \* count loaded by the += of line 51
    new_file_path,
    interleaved       \* whether two tasks have run at the same time

vars == <<main, file_paths, submitted, image_hashes, entry, dest, pc,
          date_taken, img_hash, duplicate_count, ref, tmp, new_file_path,
          interleaved>>

Items == 1..MaxFiles

\* No value yet: an unassigned local is 0 or "", a dict not created is NoEntry.
NoHash == ""
NoPath == ""
NoEntry == [file_path |-> 0, duplicate_count |-> 0]

Terminal == {"Copied", "Failed", "Ignored"}

InFlight == {i \in Items : pc[i] \notin Terminal \cup {"queued"}}

ext(i) == file_paths[i].ext

Init ==
    /\ main = "walk"
    /\ file_paths = <<>>
    /\ submitted = 0
    /\ image_hashes = <<>>
    /\ entry = [i \in Items |-> NoEntry]
    /\ dest = <<>>
    /\ pc = [i \in Items |-> "queued"]
    /\ date_taken = [i \in Items |-> Unknown]
    /\ img_hash = [i \in Items |-> NoHash]
    /\ duplicate_count = [i \in Items |-> 0]
    /\ ref = [i \in Items |-> 0]
    /\ tmp = [i \in Items |-> 0]
    /\ new_file_path = [i \in Items |-> NoPath]
    /\ interleaved = FALSE

\* d[k] = v on a dict.
Put(d, k, v) == [x \in DOMAIN d \cup {k} |-> IF x = k THEN v ELSE d[x]]

\* ------------------------------------------------------------ process_files
\* Lines 103-107: the walk appends one (file_path, ext) per file found.
Walk ==
    /\ main = "walk"
    /\ Len(file_paths) < MaxFiles
    /\ \E e \in Exts :
         file_paths' = Append(file_paths,
                              [file_path |-> Len(file_paths) + 1, ext |-> e])
    /\ UNCHANGED <<main, submitted, image_hashes, entry, dest, pc, date_taken,
                   img_hash, duplicate_count, ref, tmp, new_file_path,
                   interleaved>>

\* Line 109: the walk is over, the pool is created.
WalkDone ==
    /\ main = "walk"
    /\ main' = "submit"
    /\ UNCHANGED <<file_paths, submitted, image_hashes, entry, dest, pc,
                   date_taken, img_hash, duplicate_count, ref, tmp,
                   new_file_path,
                   interleaved>>

\* Line 110: executor.submit for the next element of file_paths. The pool
\* threads run while the list of futures is still being built.
Submit ==
    /\ main = "submit"
    /\ submitted < Len(file_paths)
    /\ submitted' = submitted + 1
    /\ UNCHANGED <<main, file_paths, image_hashes, entry, dest, pc, date_taken,
                   img_hash, duplicate_count, ref, tmp, new_file_path,
                   interleaved>>

\* Line 111: the list of futures is complete.
SubmitDone ==
    /\ main = "submit"
    /\ submitted = Len(file_paths)
    /\ main' = "wait"
    /\ UNCHANGED <<file_paths, submitted, image_hashes, entry, dest, pc,
                   date_taken, img_hash, duplicate_count, ref, tmp,
                   new_file_path,
                   interleaved>>

\* Return as it would be without the with block and the as_completed loop:
\* it does not wait for the tasks.
Return_NoWait ==
    /\ main = "wait"
    /\ main' = "done"
    /\ UNCHANGED <<file_paths, submitted, image_hashes, entry, dest, pc,
                   date_taken, img_hash, duplicate_count, ref, tmp,
                   new_file_path, interleaved>>

\* Lines 111-112 and the end of the with block: as_completed has yielded
\* every future, and shutdown(wait=True) has joined the threads.
Return ==
    /\ main = "wait"
    /\ \A i \in 1..submitted : pc[i] \in Terminal
    /\ main' = "done"
    /\ UNCHANGED <<file_paths, submitted, image_hashes, entry, dest, pc,
                   date_taken, img_hash, duplicate_count, ref, tmp,
                   new_file_path,
                   interleaved>>

\* CanStart as it would be if the pool started a thread for every task.
CanStart_NoLimit(i) ==
    /\ i <= submitted
    /\ pc[i] = "queued"
    /\ \A j \in 1..(i - 1) : pc[j] # "queued"

\* A pool thread takes the oldest submitted task from the work queue; there
\* are max_workers threads, each running one task at a time.
CanStart(i) ==
    /\ i <= submitted
    /\ pc[i] = "queued"
    /\ \A j \in 1..(i - 1) : pc[j] # "queued"
    /\ Cardinality(InFlight) < max_workers

Start(i) ==
    /\ CanStart(i)
    /\ pc' = [pc EXCEPT ![i] = "l39"]
    /\ interleaved' = (interleaved \/ InFlight # {})
    /\ UNCHANGED <<main, file_paths, submitted, image_hashes, entry, dest,
                   date_taken, img_hash, duplicate_count, ref, tmp,
                   new_file_path>>

\* ------------------------------------------------------------- process_file
\* Fail as it would be if the error of one task cancelled the tasks still
\* in the queue.
Fail_CancelsQueued(i) ==
    pc' = [j \in Items |->
             IF j = i \/ (j <= submitted /\ pc[j] = "queued")
               THEN "Failed" ELSE pc[j]]

\* Lines 87-88: the except clause prints the error and the task returns.
Fail(i) == pc' = [pc EXCEPT ![i] = "Failed"]

\* Lines 39-41: an image; get_image_metadata never raises.
ImageMetadata(i) ==
    /\ pc[i] = "l39"
    /\ In(ext(i), image_extensions)
    /\ \E d \in get_image_metadata :
         date_taken' = [date_taken EXCEPT ![i] = d]
    /\ pc' = [pc EXCEPT ![i] = "l44"]
    /\ UNCHANGED <<main, file_paths, submitted, image_hashes, entry, dest,
                   img_hash, duplicate_count, ref, tmp, new_file_path,
                   interleaved>>

\* AverageHash as it would be if a file that cannot be decoded were taken
\* for a new image and went on to the naming and the copy.
AverageHash_SkipsOnError(i) ==
    /\ pc[i] = "l44"
    /\ \/ \E h \in Hashes :
            /\ img_hash' = [img_hash EXCEPT ![i] = h]
            /\ pc' = [pc EXCEPT ![i] = "l48"]
       \/ /\ pc' = [pc EXCEPT ![i] = "l71"]
          /\ UNCHANGED img_hash
    /\ UNCHANGED <<main, file_paths, submitted, image_hashes, entry, dest,
                   date_taken, duplicate_count, ref, tmp, new_file_path,
                   interleaved>>

\* Lines 44-45: Image.open raises on a file it cannot decode; otherwise
\* the hash of the pixels.
AverageHash(i) ==
    /\ pc[i] = "l44"
    /\ \/ \E h \in Hashes :
            /\ img_hash' = [img_hash EXCEPT ![i] = h]
            /\ pc' = [pc EXCEPT ![i] = "l48"]
       \/ /\ Fail(i)
          /\ UNCHANGED img_hash
    /\ UNCHANGED <<main, file_paths, submitted, image_hashes, entry, dest,
                   date_taken, duplicate_count, ref, tmp, new_file_path,
                   interleaved>>

\* Line 48: img_hash in image_hashes.
CheckDuplicate(i) ==
    /\ pc[i] = "l48"
    /\ pc' = [pc EXCEPT ![i] =
                IF img_hash[i] \in DOMAIN image_hashes THEN "l50" ELSE "l63"]
    /\ UNCHANGED <<main, file_paths, submitted, image_hashes, entry, dest,
                   date_taken, img_hash, duplicate_count, ref, tmp,
                   new_file_path,
                   interleaved>>

\* Line 50, first subscript: image_hashes[img_hash]. (Line 49 only prints
\* the entry.) A key is never removed, so the lookup cannot fail.
LoadEntry50(i) ==
    /\ pc[i] = "l50"
    /\ ref' = [ref EXCEPT ![i] = image_hashes[img_hash[i]]]
    /\ pc' = [pc EXCEPT ![i] = "l50c"]
    /\ UNCHANGED <<main, file_paths, submitted, image_hashes, entry, dest,
                   date_taken, img_hash, duplicate_count, tmp, new_file_path,
                   interleaved>>

\* ReadCount50 as it would be if the ordinal were the count after the
\* increment.
ReadCount50_PostIncrement(i) ==
    /\ pc[i] = "l50c"
    /\ duplicate_count' =
         [duplicate_count EXCEPT ![i] = entry[ref[i]].duplicate_count + 1]
    /\ ref' = [ref EXCEPT ![i] = 0]
    /\ pc' = [pc EXCEPT ![i] = "l51"]
    /\ UNCHANGED <<main, file_paths, submitted, image_hashes, entry, dest,
                   date_taken, img_hash, tmp, new_file_path, interleaved>>

\* Line 50, second subscript and the assignment:
\* duplicate_count = (entry)['duplicate_count'].
ReadCount50(i) ==
    /\ pc[i] = "l50c"
    /\ duplicate_count' =
         [duplicate_count EXCEPT ![i] = entry[ref[i]].duplicate_count]
    /\ ref' = [ref EXCEPT ![i] = 0]
    /\ pc' = [pc EXCEPT ![i] = "l51"]
    /\ UNCHANGED <<main, file_paths, submitted, image_hashes, entry, dest,
                   date_taken, img_hash, tmp, new_file_path,
                   interleaved>>

\* Line 51, image_hashes[img_hash]['duplicate_count'] += 1: the entry dict
\* is looked up, its count is read, and the sum is stored into that dict.
LoadEntry51(i) ==
    /\ pc[i] = "l51"
    /\ ref' = [ref EXCEPT ![i] = image_hashes[img_hash[i]]]
    /\ pc' = [pc EXCEPT ![i] = "l51r"]
    /\ UNCHANGED <<main, file_paths, submitted, image_hashes, entry, dest,
                   date_taken, img_hash, duplicate_count, tmp, new_file_path,
                   interleaved>>

ReadCount51(i) ==
    /\ pc[i] = "l51r"
    /\ tmp' = [tmp EXCEPT ![i] = entry[ref[i]].duplicate_count]
    /\ pc' = [pc EXCEPT ![i] = "l51w"]
    /\ UNCHANGED <<main, file_paths, submitted, image_hashes, entry, dest,
                   date_taken, img_hash, duplicate_count, ref, new_file_path,
                   interleaved>>

StoreCount51(i) ==
    /\ pc[i] = "l51w"
    /\ entry' = [entry EXCEPT ![ref[i]].duplicate_count = tmp[i] + 1]
    /\ ref' = [ref EXCEPT ![i] = 0]
    /\ tmp' = [tmp EXCEPT ![i] = 0]
    /\ pc' = [pc EXCEPT ![i] = "l52"]
    /\ UNCHANGED <<main, file_paths, submitted, image_hashes, dest,
                   date_taken, img_hash, duplicate_count, new_file_path,
                   interleaved>>

\* Lines 52-58: the name of a duplicate; strptime may raise.
DuplicateName(i) ==
    /\ pc[i] = "l52"
    /\ IF format_raises(date_taken[i])
         THEN /\ Fail(i)
              /\ UNCHANGED new_file_path
         ELSE /\ new_file_path' = [new_file_path EXCEPT ![i] =
                    join(images_output_dir,
                         duplicate_file_name(date_taken[i], img_hash[i],
                                             duplicate_count[i], ext(i)))]
              /\ pc' = [pc EXCEPT ![i] = "l59"]
    /\ UNCHANGED <<main, file_paths, submitted, image_hashes, entry, dest,
                   date_taken, img_hash, duplicate_count, ref, tmp,
                   interleaved>>

\* Register as it would be if line 63 assigned a new dict holding this key
\* alone to image_hashes.
Register_DropsOthers(i) ==
    /\ pc[i] = "l63"
    /\ entry' = [entry EXCEPT ![i] =
                    [file_path |-> file_paths[i].file_path,
                     duplicate_count |-> 1]]
    /\ image_hashes' = [h \in {img_hash[i]} |-> i]
    /\ pc' = [pc EXCEPT ![i] = "l71"]
    /\ UNCHANGED <<main, file_paths, submitted, dest, date_taken, img_hash,
                   duplicate_count, ref, tmp, new_file_path, interleaved>>

\* Line 63: image_hashes[img_hash] = {'file_path': ..., 'duplicate_count': 1},
\* a new dict, which replaces whatever the key held.
Register(i) ==
    /\ pc[i] = "l63"
    /\ entry' = [entry EXCEPT ![i] =
                    [file_path |-> file_paths[i].file_path,
                     duplicate_count |-> 1]]
    /\ image_hashes' = Put(image_hashes, img_hash[i], i)
    /\ pc' = [pc EXCEPT ![i] = "l71"]
    /\ UNCHANGED <<main, file_paths, submitted, dest, date_taken, img_hash,
                   duplicate_count, ref, tmp, new_file_path,
                   interleaved>>

\* VideoMetadata as it would be if a video went on to the hashing step.
VideoMetadata_Hashed(i) ==
    /\ pc[i] = "l39"
    /\ ~In(ext(i), image_extensions)
    /\ In(ext(i), video_extensions)
    /\ \E d \in get_video_metadata :
         date_taken' = [date_taken EXCEPT ![i] = d]
    /\ pc' = [pc EXCEPT ![i] = "l44"]
    /\ UNCHANGED <<main, file_paths, submitted, image_hashes, entry, dest,
                   img_hash, duplicate_count, ref, tmp, new_file_path,
                   interleaved>>

\* Lines 65-67: a video; get_video_metadata never raises.
VideoMetadata(i) ==
    /\ pc[i] = "l39"
    /\ ~In(ext(i), image_extensions)
    /\ In(ext(i), video_extensions)
    /\ \E d \in get_video_metadata :
         date_taken' = [date_taken EXCEPT ![i] = d]
    /\ pc' = [pc EXCEPT ![i] = "l71"]
    /\ UNCHANGED <<main, file_paths, submitted, image_hashes, entry, dest,
                   img_hash, duplicate_count, ref, tmp, new_file_path,
                   interleaved>>

\* Ignore as it would be without the return of line 69: the item falls
\* through to the naming and the copy.
Ignore_FallsThrough(i) ==
    /\ pc[i] = "l39"
    /\ ~In(ext(i), image_extensions)
    /\ ~In(ext(i), video_extensions)
    /\ pc' = [pc EXCEPT ![i] = "l71"]
    /\ UNCHANGED <<main, file_paths, submitted, image_hashes, entry, dest,
                   date_taken, img_hash, duplicate_count, ref, tmp,
                   new_file_path, interleaved>>

\* Lines 68-69: neither an image nor a video: return.
Ignore(i) ==
    /\ pc[i] = "l39"
    /\ ~In(ext(i), image_extensions)
    /\ ~In(ext(i), video_extensions)
    /\ pc' = [pc EXCEPT ![i] = "Ignored"]
    /\ UNCHANGED <<main, file_paths, submitted, image_hashes, entry, dest,
                   date_taken, img_hash, duplicate_count, ref, tmp,
                   new_file_path,
                   interleaved>>

\* Lines 71-82: the name of a first-seen image or of a video; strptime may
\* raise.
FileName(i) ==
    /\ pc[i] = "l71"
    /\ IF format_raises(date_taken[i])
         THEN /\ Fail(i)
              /\ UNCHANGED new_file_path
         ELSE /\ new_file_path' = [new_file_path EXCEPT ![i] =
                    IF In(ext(i), image_extensions)
                      THEN join(images_output_dir,
                                image_file_name(date_taken[i], img_hash[i],
                                                ext(i)))
                      ELSE join(videos_output_dir,
                                video_file_name(date_taken[i], uuid4(i),
                                                ext(i)))]
              /\ pc' = [pc EXCEPT ![i] = "l84"]
    /\ UNCHANGED <<main, file_paths, submitted, image_hashes, entry, dest,
                   date_taken, img_hash, duplicate_count, ref, tmp,
                   interleaved>>

\* Lines 59 and 84, shutil.copy2: the destination is opened for writing
\* (created, or truncated when it exists), or the open raises.
CopyOpen(i) ==
    /\ pc[i] \in {"l59", "l84"}
    /\ \/ /\ dest' = Put(dest, new_file_path[i],
                         [src |-> file_paths[i].file_path, complete |-> FALSE])
          /\ pc' = [pc EXCEPT ![i] = IF pc[i] = "l59" THEN "w59" ELSE "w84"]
       \/ /\ Fail(i)
          /\ UNCHANGED dest
    /\ UNCHANGED <<main, file_paths, submitted, image_hashes, entry,
                   date_taken, img_hash, duplicate_count, ref, tmp,
                   new_file_path,
                   interleaved>>

\* shutil.copy2 writes the content and the file times and returns (lines
\* 60-61 and 86 print), or a write raises and leaves what was written.
CopyWrite(i) ==
    /\ pc[i] \in {"w59", "w84"}
    /\ \/ /\ dest' = Put(dest, new_file_path[i],
                         [src |-> file_paths[i].file_path, complete |-> TRUE])
          /\ pc' = [pc EXCEPT ![i] = "Copied"]
       \/ /\ Fail(i)
          /\ UNCHANGED dest
    /\ UNCHANGED <<main, file_paths, submitted, image_hashes, entry,
                   date_taken, img_hash, duplicate_count, ref, tmp,
                   new_file_path,
                   interleaved>>

process_file(i) ==
    \/ Start(i)
    \/ ImageMetadata(i)
    \/ AverageHash(i)
    \/ CheckDuplicate(i)
    \/ LoadEntry50(i)
    \/ ReadCount50(i)
    \/ LoadEntry51(i)
    \/ ReadCount51(i)
    \/ StoreCount51(i)
    \/ DuplicateName(i)
    \/ Register(i)
    \/ VideoMetadata(i)
    \/ Ignore(i)
    \/ FileName(i)
    \/ CopyOpen(i)
    \/ CopyWrite(i)

process_files == Walk \/ WalkDone \/ Submit \/ SubmitDone \/ Return

Next == process_files \/ \E i \in Items : process_file(i)

Spec == Init /\ [][Next]_vars

\* ------------------------------------------------------------------ claims
IsImage(i) == i <= Len(file_paths) /\ In(ext(i), image_extensions)
IsVideo(i) == i <= Len(file_paths) /\ In(ext(i), video_extensions)
IsIgnored(i) == i <= Len(file_paths) /\ ~IsImage(i) /\ ~IsVideo(i)

\* The items whose fingerprint is F.
WithHash(F) == {i \in Items : img_hash[i] = F}

\* Item i found its fingerprint absent at line 48 (it is about to create the
\* entry, or has created it).
FirstSeen(i) == pc[i] = "l63" \/ entry[i] # NoEntry

\* Positions of the registry step of the duplicate branch (lines 50-51).
InRegistryStep == {"l50", "l50c", "l51", "l51r", "l51w"}

\* Item i found its fingerprint present at line 48.
Duplicate(i) ==
    \/ pc[i] \in InRegistryStep \cup {"l52", "l59", "w59"}
    \/ duplicate_count[i] # 0

\* Item i has read its ordinal (line 50).
HasOrdinal(i) == duplicate_count[i] # 0

\* Item i has completed its registry step (line 63, or lines 50-51).
PastRegistry(i) ==
    \/ entry[i] # NoEntry
    \/ Duplicate(i) /\ pc[i] \notin InRegistryStep

\* The entry dict the registry holds for F.
Entry(F) == entry[image_hashes[F]]

\* The ordinals handed out for F so far.
Ordinals(F) == {duplicate_count[i] : i \in {j \in WithHash(F) : HasOrdinal(j)}}

\* Item i has opened its destination file for writing.
Wrote(i) == pc[i] \in {"w59", "w84", "Copied"}

\* C1: among the items with one fingerprint at most one takes the first-seen
\* branch, and at the end of a run exactly one has taken it and every other
\* one the duplicate branch.
C1_OneFirstSeen ==
    \A F \in Hashes :
      /\ Cardinality({i \in WithHash(F) : FirstSeen(i)}) <= 1
      /\ (main = "done" /\ WithHash(F) # {}) =>
           /\ Cardinality({i \in WithHash(F) : FirstSeen(i)}) = 1
           /\ \A i \in WithHash(F) : FirstSeen(i) \/ Duplicate(i)

\* C2: the ordinals handed out for one fingerprint are pairwise distinct and
\* contiguous, and an item that reads its ordinal later than another
\* duplicate of the fingerprint gets a strictly larger one.
C2_OrdinalsDistinctContiguous ==
    /\ [](\A F \in Hashes :
            /\ \A i, j \in WithHash(F) :
                 (HasOrdinal(i) /\ HasOrdinal(j) /\ i # j)
                   => duplicate_count[i] # duplicate_count[j]
            /\ \A m, n \in Ordinals(F) : \A k \in m..n : k \in Ordinals(F))
    /\ [][\A i, j \in Items :
            (i # j /\ img_hash[i] = img_hash[j] /\ HasOrdinal(j)
               /\ ~HasOrdinal(i) /\ HasOrdinal(i)')
              => duplicate_count'[i] > duplicate_count[j]]_vars

\* C4: once every item with fingerprint F has completed its registry step,
\* the count of F's entry is the number of items with fingerprint F that
\* passed the registry step.
C4_NoLostUpdate ==
    \A F \in DOMAIN image_hashes :
      (\A i \in WithHash(F) : PastRegistry(i))
        => Entry(F).duplicate_count = Cardinality(WithHash(F))

\* C5: an entry of the registry is never deleted, replaced or reset: its
\* file_path stays and its duplicate_count never decreases.
C5_EntryKept ==
    [][\A F \in DOMAIN image_hashes :
         /\ F \in DOMAIN image_hashes'
         /\ Entry(F)'.file_path = Entry(F).file_path
         /\ Entry(F)'.duplicate_count >= Entry(F).duplicate_count]_vars

\* C6: no two items are copied to the same destination path.
C6_DistinctDestinations ==
    \A i, j \in Items :
      (i # j /\ Wrote(i) /\ Wrote(j)) => new_file_path[i] # new_file_path[j]

FairSpec == Spec /\ WF_vars(Next)

\* C7: the run eventually returns, and it returns only when every
\* enumerated item is terminal, the images and videos Copied or Failed; a
\* terminal item stays as it is.
C7_OneTerminalState ==
    /\ (main # "walk") ~> (main = "done")
    /\ [](main = "done" =>
            \A i \in 1..Len(file_paths) :
              /\ pc[i] \in Terminal
              /\ (IsImage(i) \/ IsVideo(i)) => pc[i] \in {"Copied", "Failed"})
    /\ [][\A i \in Items :
            pc[i] \in Terminal =>
              /\ pc'[i] = pc[i]
              /\ new_file_path'[i] = new_file_path[i]]_vars

\* The run has returned with an image Copied and another item Failed.
C7_Witness ==
    /\ main = "done"
    /\ \E i, j \in Items :
         /\ IsImage(i) /\ pc[i] = "Copied"
         /\ pc[j] = "Failed"

\* C8: the step that fails an item changes no other item and not the main
\* thread, and once an item has failed the run still returns, with every
\* enumerated item dispatched and terminal.
C8_FailureIsLocal ==
    /\ [][\A i \in Items :
            (pc[i] # "Failed" /\ pc'[i] = "Failed") =>
              /\ \A j \in Items \ {i} : pc'[j] = pc[j]
              /\ UNCHANGED <<main, submitted, file_paths>>]_vars
    /\ (\E i \in Items : pc[i] = "Failed")
         ~> (main = "done" /\ \A j \in 1..Len(file_paths) : pc[j] \in Terminal)

\* Two items failed and the third, dispatched after a failure, was copied.
C8_Witness ==
    /\ main = "done"
    /\ pc[1] = "Failed"
    /\ pc[2] = "Failed"
    /\ pc[3] = "Copied"

\* Positions of the hashing and registry steps (lines 44-63).
HashAndRegistry == {"l44", "l48", "l63"} \cup InRegistryStep

\* C9: only image items are hashed and reach the registry; a step of a
\* video item never changes the registry.
C9_KindGating ==
    /\ [](\A i \in Items :
            (\/ pc[i] \in HashAndRegistry
             \/ img_hash[i] # NoHash
             \/ entry[i] # NoEntry
             \/ duplicate_count[i] # 0
             \/ ref[i] # 0
             \/ tmp[i] # 0) => IsImage(i))
    /\ [][\A i \in Items :
            (IsVideo(i) /\ pc'[i] # pc[i])
              => UNCHANGED <<image_hashes, entry>>]_vars

\* A video was copied in a run whose registry holds an entry.
C9_Witness ==
    /\ DOMAIN image_hashes # {}
    /\ \E i \in Items : IsVideo(i) /\ pc[i] = "Copied"

\* C10: an item that is neither an image nor a video returns right after
\* the classification: it has no destination, no file of the destination
\* is a copy of it, its steps change neither the registry nor the
\* destination, and it is never Failed.
C10_IgnoredReturns ==
    /\ [](\A i \in Items :
            IsIgnored(i) =>
              /\ pc[i] \in {"queued", "l39", "Ignored"}
              /\ new_file_path[i] = NoPath
              /\ entry[i] = NoEntry
              /\ \A f \in DOMAIN dest : dest[f].src # i)
    /\ [][\A i \in Items :
            (IsIgnored(i) /\ pc'[i] # pc[i])
              => UNCHANGED <<image_hashes, entry, dest>>]_vars

\* An ignored item has returned in a run that copied another file.
C10_Witness ==
    /\ \E i \in Items : IsIgnored(i) /\ pc[i] = "Ignored"
    /\ DOMAIN dest # {}

\* C11: an image that cannot be decoded ends Failed at the hashing step: it
\* never gets a fingerprint or a destination, no file of the destination is
\* a copy of it, it creates no entry and takes no ordinal, and its steps up
\* to the failure leave the registry and the destination as they are.
C11_DecodeFailureFails ==
    /\ [](\A i \in Items :
            (IsImage(i) /\ img_hash[i] = NoHash) =>
              /\ pc[i] \in {"queued", "l39", "l44", "Failed"}
              /\ new_file_path[i] = NoPath
              /\ entry[i] = NoEntry
              /\ duplicate_count[i] = 0
              /\ \A f \in DOMAIN dest : dest[f].src # i)
    /\ [][\A i \in Items :
            (IsImage(i) /\ pc[i] \in {"l39", "l44"} /\ pc'[i] # pc[i])
              => UNCHANGED <<image_hashes, entry, dest>>]_vars

\* An image failed at the hashing step in a run whose registry holds an
\* entry and whose destination holds a file.
C11_Witness ==
    /\ \E i \in Items : IsImage(i) /\ img_hash[i] = NoHash /\ pc[i] = "Failed"
    /\ DOMAIN image_hashes # {}
    /\ DOMAIN dest # {}

\* Item i ended Failed at the naming step (lines 52-58 or 71-82): after the
\* hashing of an image or the metadata of a video, before a destination
\* path was computed.
FailedAtNaming(i) ==
    /\ pc[i] = "Failed"
    /\ new_file_path[i] = NoPath
    /\ IsVideo(i) \/ img_hash[i] # NoHash

\* The destination of item i with the date component 'unknown'.
UnknownDatePath(i) ==
    IF IsVideo(i)
      THEN videos_output_dir \o "/unknown-" \o uuid4(i) \o ext(i)
      ELSE IF duplicate_count[i] # 0
        THEN images_output_dir \o "/unknown-" \o img_hash[i] \o "_duplicate_"
               \o ToString(duplicate_count[i]) \o ext(i)
        ELSE images_output_dir \o "/unknown-" \o img_hash[i] \o ext(i)

\* C12: an image or video item whose timestamp is absent, unreadable or
\* cannot be parsed does not end Failed because of the timestamp, and is
\* placed with the date component 'unknown'.
C12_MetadataNeverFatal ==
    \A i \in Items :
      ((IsImage(i) \/ IsVideo(i)) /\ ~strptime_ok(date_taken[i])) =>
        /\ ~FailedAtNaming(i)
        /\ new_file_path[i] # NoPath => new_file_path[i] = UnknownDatePath(i)

\* ------------------------------------------------------- the naming alone
\* Largest ordinal given to the naming step.
MaxOrdinal == 2

\* Timestamps given to the naming step: none, two of one day, one of
\* another day.
PlaceDates ==
    {Unknown, <<2023, 5, 1, 10, 0, 0>>, <<2023, 5, 1, 11, 0, 0>>,
     <<2024, 12, 31, 23, 59, 59>>}

\* Extensions given to the naming step.
PlaceExts == {".jpg", ".png", ".mp4"}

\* Two tasks stand before the naming step, lines 52-58 for a duplicate and
\* lines 71-82 for a first-seen image or a video, with any inputs.

\* The inputs of one task before the naming step: an image has a hash, and
\* an ordinal when it is a duplicate; a video has neither.
PlaceInputs ==
    {x \in [ext : PlaceExts, date_taken : PlaceDates,
            img_hash : Hashes \cup {NoHash}, duplicate_count : 0..MaxOrdinal] :
       IF In(x.ext, image_extensions)
         THEN x.img_hash # NoHash
         ELSE x.img_hash = NoHash /\ x.duplicate_count = 0}

PlaceInit ==
    /\ main = "wait"
    /\ submitted = 2
    /\ image_hashes = <<>>
    /\ entry = [i \in Items |-> NoEntry]
    /\ dest = <<>>
    /\ \E x, y \in PlaceInputs :
         LET in == <<x, y>> IN
           /\ file_paths = <<[file_path |-> 1, ext |-> x.ext],
                             [file_path |-> 2, ext |-> y.ext]>>
           /\ date_taken =
                [i \in Items |-> IF i <= 2 THEN in[i].date_taken ELSE Unknown]
           /\ img_hash =
                [i \in Items |-> IF i <= 2 THEN in[i].img_hash ELSE NoHash]
           /\ duplicate_count =
                [i \in Items |-> IF i <= 2 THEN in[i].duplicate_count ELSE 0]
           /\ pc = [i \in Items |->
                      IF i > 2 THEN "queued"
                      ELSE IF in[i].duplicate_count # 0 THEN "l52" ELSE "l71"]
    /\ ref = [i \in Items |-> 0]
    /\ tmp = [i \in Items |-> 0]
    /\ new_file_path = [i \in Items |-> NoPath]
    /\ interleaved = TRUE

PlaceNext == \E i \in Items : DuplicateName(i) \/ FileName(i)

PlaceSpec == PlaceInit /\ [][PlaceNext]_vars

Kind(i) == IF IsVideo(i) THEN "Video" ELSE "Image"

\* The identity component of the name of item i.
Identity(i) == IF IsVideo(i) THEN uuid4(i) ELSE img_hash[i]

Named(i) == new_file_path[i] # NoPath

\* C13 as stated: the same (kind, timestamp, identity, ordinal, extension)
\* gives the same path, and two tuples (kind, timestamp, identity, ordinal)
\* that differ in a field give different paths.
C13_InjectiveInTimestamp ==
    \A i, j \in Items :
      (Named(i) /\ Named(j)) =>
        /\ (<<Kind(i), date_taken[i], Identity(i), duplicate_count[i], ext(i)>>
              = <<Kind(j), date_taken[j], Identity(j), duplicate_count[j],
                  ext(j)>>)
             => new_file_path[i] = new_file_path[j]
        /\ (<<Kind(i), date_taken[i], Identity(i), duplicate_count[i]>>
              # <<Kind(j), date_taken[j], Identity(j), duplicate_count[j]>>)
             => new_file_path[i] # new_file_path[j]

\* C13 as amended: the path is a function of (kind, timestamp, identity,
\* ordinal, extension), and two tuples (kind, day of the timestamp,
\* identity, ordinal) that differ in a field give different paths; the time
\* of day is not part of the name.
C13_InjectiveInDay ==
    \A i, j \in Items :
      (Named(i) /\ Named(j)) =>
        /\ (<<Kind(i), date_taken[i], Identity(i), duplicate_count[i], ext(i)>>
              = <<Kind(j), date_taken[j], Identity(j), duplicate_count[j],
                  ext(j)>>)
             => new_file_path[i] = new_file_path[j]
        /\ (<<Kind(i), date_taken_formatted(date_taken[i]), Identity(i),
              duplicate_count[i]>>
              # <<Kind(j), date_taken_formatted(date_taken[j]), Identity(j),
                  duplicate_count[j]>>)
             => new_file_path[i] # new_file_path[j]

\* Two duplicates were named that differ in the ordinal alone, and so in
\* the path.
C13_Witness ==
    /\ Named(1) /\ Named(2)
    /\ <<date_taken[1], img_hash[1], ext(1)>>
         = <<date_taken[2], img_hash[2], ext(2)>>
    /\ date_taken[1] # Unknown
    /\ duplicate_count[1] = 1
    /\ duplicate_count[2] = 2
    /\ new_file_path[1] # new_file_path[2]

\* C14: no file of the destination is ever visible in a partially written
\* state. (The run has no operation that cancels it: process_files submits
\* every element of file_paths and waits for every future.)
C14_NoPartialFile == \A f \in DOMAIN dest : dest[f].complete

\* C15: when the increment of a duplicate takes effect (the store of line
\* 51), the ordinal the item read at line 50 is the count the entry of its
\* fingerprint holds just before that store.
C15_OrdinalIsPreIncrement ==
    [][\A i \in Items :
         (pc[i] = "l51w" /\ pc'[i] = "l52")
           => duplicate_count[i] = Entry(img_hash[i]).duplicate_count]_vars

\* C16: at most 2 items are in flight; an item in flight or terminal was
\* enumerated and submitted; and the list of items does not change once the
\* walk is over, which is before the first item is submitted.
C16_PoolBound ==
    /\ [](Cardinality(InFlight) <= 2)
    /\ [](\A i \in Items :
            pc[i] # "queued" =>
              /\ i <= submitted
              /\ submitted <= Len(file_paths)
              /\ main # "walk")
    /\ [][main # "walk" => file_paths' = file_paths]_vars
    /\ [](main = "walk" => submitted = 0)

\* Two items are in flight and a third, submitted, waits in the queue.
C16_Witness ==
    /\ Cardinality(InFlight) = 2
    /\ \E i \in Items : i <= submitted /\ pc[i] = "queued"

\* C17: a step of an item with fingerprint F neither creates, changes nor
\* removes the registry entry of another fingerprint G, nor changes an
\* entry dict made for G.
C17_OtherEntriesUnchanged ==
    [][\A i \in Items :
         pc'[i] # pc[i] =>
           /\ \A G \in Hashes \ {img_hash'[i]} :
                /\ (G \in DOMAIN image_hashes') = (G \in DOMAIN image_hashes)
                /\ G \in DOMAIN image_hashes =>
                     /\ image_hashes'[G] = image_hashes[G]
                     /\ Entry(G)' = Entry(G)
           /\ \A k \in Items :
                img_hash[k] # img_hash'[i] => entry'[k] = entry[k]]_vars

\* Both fingerprints are registered and one of them has counted a
\* duplicate.
C17_Witness ==
    /\ DOMAIN image_hashes = Hashes
    /\ \E F \in Hashes : Entry(F).duplicate_count >= 2

\* C18: an item that ends Failed after its fingerprint was computed has left
\* no entry and no increment in the registry, and at the end of a run every
\* copied duplicate of a fingerprint has a copied first-seen item of that
\* fingerprint, whose file is at the destination.
C18_FailureLeavesRegistry ==
    /\ \A i \in Items :
         (pc[i] = "Failed" /\ img_hash[i] # NoHash) => ~PastRegistry(i)
    /\ main = "done" =>
         \A i \in Items :
           (Duplicate(i) /\ pc[i] = "Copied") =>
             \E j \in WithHash(img_hash[i]) :
               /\ FirstSeen(j)
               /\ pc[j] = "Copied"
               /\ new_file_path[j] \in DOMAIN dest

====
